---- MODULE Spec2Model ----
(***************************************************************************)
(* Model of src/build.py: the segmenter (split_lang_descr), the entry      *)
(* parser (parse_langs), the record formatter (format), the two code       *)
(* resolvers (find_language_code, find_country_code) and the loop of main. *)
(*                                                                         *)
(* Strings are sequences of symbols.  A symbol is one punctuation or digit *)
(* character (" ", ",", "(", ")", ".", "%", "-", "&", "3", ...) or one     *)
(* maximal run of letters (a word such as "the" or "korea").  Python       *)
(* indices are 0-based: descr[i] is written At(descr, i).                  *)
(***************************************************************************)
EXTENDS Integers, Sequences, FiniteSets, TLC

VARIABLES
    pc,                 \* position of the running function
    log,                \* lines written by print(), in order
    language_codes,     \* main: language name -> code (inverted table)
    country_codes,      \* main: country name -> code (inverted table)
    descr,              \* split_lang_descr: the argument
    cursor,             \* split_lang_descr: local
    lng_start,          \* split_lang_descr: local
    inside_parenthesis, \* split_lang_descr: local
    results,            \* split_lang_descr: local, the returned list
    list_descr,         \* parse_langs: the argument
    entries,            \* parse_langs: split_lang_descr(list_descr), being enumerated
    lng_list,           \* parse_langs: result so far; format: the argument
    formatted,          \* format: the returned list
    resolver,           \* which resolver is called: "language" or "country"
    name_arg,           \* find_*_code: the name passed to the top-level call
    found,              \* find_*_code: the returned code or None
    raw_data,           \* main: the input countries, <<name, description>> in order
    idx,                \* main: number of raw_data items already processed
    lngs_by_country,    \* main: code -> parsed list
    output              \* main: the final mapping, <<code, list>> in order

vars == <<pc, log, language_codes, country_codes, descr, cursor, lng_start,
          inside_parenthesis, results, list_descr, entries, lng_list, formatted,
          resolver, name_arg, found, raw_data, idx, lngs_by_country, output>>

splitVars == <<descr, cursor, lng_start, inside_parenthesis, results>>
parseVars == <<list_descr, entries>>
resolveVars == <<resolver, name_arg, found>>
mainVars == <<raw_data, idx, lngs_by_country, output>>
tableVars == <<language_codes, country_codes>>

None == "None"

\* None where the value, when present, is a record (a number, a match)
NoValue == [none |-> TRUE]

----------------------------------------------------------------------------
(* Bounds of the model *)

MaxDescrLen == 5
MaxNameWords == 3
MaxFragments == 4
MaxEntries == 6
MaxCountries == 4

----------------------------------------------------------------------------
(* Python string primitives on symbol sequences *)

Range(s) == {s[i] : i \in DOMAIN s}

\* s[i] with a 0-based index
At(s, i) == s[i + 1]

\* s[a:b] with 0 <= a, 0 <= b
Slice(s, a, b) ==
    LET hi == IF b > Len(s) THEN Len(s) ELSE b
    IN  IF hi <= a THEN <<>> ELSE SubSeq(s, a + 1, hi)

\* s.find(ch, from): the least 0-based index >= from holding ch, or -1
Find(s, ch, from) ==
    LET hits == {i \in from..(Len(s) - 1) : At(s, i) = ch}
    IN  IF hits = {} THEN -1 ELSE CHOOSE i \in hits : \A j \in hits : i <= j

IsSpace(c) == c = " "

\* s.strip()
Strip(s) ==
    LET keep == {i \in DOMAIN s : ~IsSpace(s[i])}
    IN  IF keep = {} THEN <<>>
        ELSE LET lo == CHOOSE i \in keep : \A j \in keep : i <= j
                 hi == CHOOSE i \in keep : \A j \in keep : j <= i
             IN  SubSeq(s, lo, hi)

\* All sequences over S of length at most n
SeqsUpTo(S, n) == UNION {[1..k -> S] : k \in 0..n}

----------------------------------------------------------------------------
(* split_lang_descr: one operator per branch of the loop body.  st is the  *)
(* record of the locals [cursor, lng_start, inside_parenthesis, results].  *)

SplitStart ==
    [cursor |-> 0, lng_start |-> 0, inside_parenthesis |-> FALSE, results |-> <<>>]

\* the slice appended by the two "final entry" branches
FinalSlice(d, st) == Slice(d, st.lng_start, Len(d) - 1)

\* if inside_parenthesis:
InsideParenthesis(d, st) ==
    LET parenthesis_pos == Find(d, ")", st.cursor)
        new_cursor == IF parenthesis_pos = -1 THEN Len(d) ELSE parenthesis_pos + 1
    IN  [st EXCEPT !.cursor = new_cursor,
                   !.inside_parenthesis = FALSE,
                   !.results = IF parenthesis_pos = -1
                               THEN Append(@, Strip(FinalSlice(d, st)))
                               ELSE @]

\* else: if parenthesis_pos == -1 and comma_pos == -1:
FinalEntry(d, st) ==
    [st EXCEPT !.cursor = Len(d),
               !.results = Append(@, Strip(FinalSlice(d, st)))]

\* elif comma_pos != -1 and (parenthesis_pos == -1 or comma_pos < parenthesis_pos):
CommaSplit(d, st) ==
    LET comma_pos == Find(d, ",", st.cursor)
    IN  [st EXCEPT !.cursor = comma_pos + 1,
                   !.results = Append(@, Strip(Slice(d, st.lng_start, comma_pos))),
                   !.lng_start = comma_pos + 1]

\* elif parenthesis_pos != -1:
OpenParenthesis(d, st) ==
    LET parenthesis_pos == Find(d, "(", st.cursor)
    IN  [st EXCEPT !.cursor = parenthesis_pos + 1,
                   !.inside_parenthesis = TRUE]

\* which branch of the loop body runs in st ("return" when the loop has ended)
SplitBranch(d, st) ==
    LET parenthesis_pos == Find(d, "(", st.cursor)
        comma_pos == Find(d, ",", st.cursor)
    IN  IF ~(st.cursor < Len(d)) THEN "return"
        ELSE IF st.inside_parenthesis THEN "inside"
        ELSE IF parenthesis_pos = -1 /\ comma_pos = -1 THEN "final"
        ELSE IF comma_pos # -1 /\ (parenthesis_pos = -1 \/ comma_pos < parenthesis_pos)
             THEN "comma"
        ELSE IF parenthesis_pos # -1 THEN "open"
        ELSE "spin"

SplitStep(d, st) ==
    CASE SplitBranch(d, st) = "inside" -> InsideParenthesis(d, st)
      [] SplitBranch(d, st) = "final"  -> FinalEntry(d, st)
      [] SplitBranch(d, st) = "comma"  -> CommaSplit(d, st)
      [] SplitBranch(d, st) = "open"   -> OpenParenthesis(d, st)
      [] OTHER -> st

RECURSIVE SplitLoop(_, _)
SplitLoop(d, st) ==
    IF SplitBranch(d, st) = "return" THEN st.results
    ELSE SplitLoop(d, SplitStep(d, st))

split_lang_descr(d) == SplitLoop(d, SplitStart)

----------------------------------------------------------------------------
(* Specification SpecSplit: split_lang_descr run step by step *)

SplitAlphabet == {"a", " ", ",", "(", ")"}

SplitLocals ==
    [cursor |-> cursor, lng_start |-> lng_start,
     inside_parenthesis |-> inside_parenthesis, results |-> results]

SetSplitLocals(st) ==
    /\ cursor' = st.cursor
    /\ lng_start' = st.lng_start
    /\ inside_parenthesis' = st.inside_parenthesis
    /\ results' = st.results

IdleSplit ==
    /\ descr = <<>> /\ cursor = 0 /\ lng_start = 0
    /\ inside_parenthesis = FALSE /\ results = <<>>
IdleParse == list_descr = <<>> /\ entries = <<>>
IdleFormat == lng_list = <<>> /\ formatted = <<>>
IdleResolve == resolver = None /\ name_arg = <<>> /\ found = None
IdleMain == raw_data = <<>> /\ idx = 0 /\ lngs_by_country = <<>> /\ output = <<>>
IdleTables == language_codes = <<>> /\ country_codes = <<>>

InitSplit ==
    /\ pc = "split_loop"
    /\ log = <<>>
    /\ descr \in SeqsUpTo(SplitAlphabet, MaxDescrLen)
    /\ cursor = SplitStart.cursor
    /\ lng_start = SplitStart.lng_start
    /\ inside_parenthesis = SplitStart.inside_parenthesis
    /\ results = SplitStart.results
    /\ IdleParse /\ IdleFormat /\ IdleResolve /\ IdleMain /\ IdleTables

SplitUnchanged ==
    UNCHANGED <<log, descr, parseVars, lng_list, formatted, resolveVars, mainVars, tableVars>>

SplitInsideParenthesis ==
    /\ pc = "split_loop"
    /\ SplitBranch(descr, SplitLocals) = "inside"
    /\ SetSplitLocals(InsideParenthesis(descr, SplitLocals))
    /\ pc' = pc
    /\ SplitUnchanged

SplitFinalEntry ==
    /\ pc = "split_loop"
    /\ SplitBranch(descr, SplitLocals) = "final"
    /\ SetSplitLocals(FinalEntry(descr, SplitLocals))
    /\ pc' = pc
    /\ SplitUnchanged

SplitComma ==
    /\ pc = "split_loop"
    /\ SplitBranch(descr, SplitLocals) = "comma"
    /\ SetSplitLocals(CommaSplit(descr, SplitLocals))
    /\ pc' = pc
    /\ SplitUnchanged

SplitOpenParenthesis ==
    /\ pc = "split_loop"
    /\ SplitBranch(descr, SplitLocals) = "open"
    /\ SetSplitLocals(OpenParenthesis(descr, SplitLocals))
    /\ pc' = pc
    /\ SplitUnchanged

SplitReturn ==
    /\ pc = "split_loop"
    /\ SplitBranch(descr, SplitLocals) = "return"
    /\ pc' = "split_return"
    /\ UNCHANGED <<cursor, lng_start, inside_parenthesis, results>>
    /\ SplitUnchanged

NextSplit ==
    \/ SplitInsideParenthesis
    \/ SplitFinalEntry
    \/ SplitComma
    \/ SplitOpenParenthesis
    \/ SplitReturn

SpecSplit == InitSplit /\ [][NextSplit]_vars

----------------------------------------------------------------------------
(* Claims about split_lang_descr, checked under SpecSplit *)

\* number of "(" minus number of ")" among the first k symbols of d
ParenDepth(d, k) ==
    Cardinality({i \in 1..k : d[i] = "("}) - Cardinality({i \in 1..k : d[i] = ")"})

\* the parentheses of d are balanced
Balanced(d) ==
    /\ \A k \in 0..Len(d) : ParenDepth(d, k) >= 0
    /\ ParenDepth(d, Len(d)) = 0

\* the split loop body that runs in the current state
CurrentBranch == IF pc = "split_loop" THEN SplitBranch(descr, SplitLocals) ELSE "none"

\* C1: in a description with balanced parentheses (nested groups included),
\* every comma at which an entry was cut lies outside every parenthesis
\* group.  lng_start is only ever set to the position after such a comma.
C1_SplitsOutsideParentheses ==
    (Balanced(descr) /\ lng_start > 0) => ParenDepth(descr, lng_start - 1) = 0

\* C2: the step that emits the final entry (nothing left to split on, or an
\* opened parenthesis that is never closed) appends the whole remainder
\* descr[lng_start:], stripped.
C2_FinalEntryIsRemainder ==
    [][(\/ CurrentBranch = "final"
        \/ CurrentBranch = "inside" /\ Find(descr, ")", cursor) = -1)
       => results' = Append(results, Strip(Slice(descr, lng_start, Len(descr))))]_vars

\* C9: when the scan leaves a parenthesis group whose ")" is the last
\* character of the description, the run returns one entry more than the
\* entries cut at commas so far: the pending entry is emitted as well.
C9_EntryAfterClosingParenthesisEmitted ==
    [][(CurrentBranch = "inside" /\ Find(descr, ")", cursor) = Len(descr) - 1)
       => Len(SplitLoop(descr, InsideParenthesis(descr, SplitLocals))) = Len(results) + 1]_vars

----------------------------------------------------------------------------
(* More Python string primitives, used by the parser and the resolvers *)

\* c.lower() for one symbol: the capitalised words of the model's alphabets
Lower(c) ==
    CASE c = "A" -> "a"
      [] c = "The" -> "the"
      [] c = "Kosovo" -> "kosovo"
      [] c = "Official" -> "official"
      [] OTHER -> c

\* s.lower()
LowerStr(s) == [i \in DOMAIN s |-> Lower(s[i])]

\* number of leading symbols of s that satisfy / do not satisfy IsSpace
LeadingSpaces(s) ==
    IF \A i \in DOMAIN s : IsSpace(s[i]) THEN Len(s)
    ELSE (CHOOSE i \in DOMAIN s : ~IsSpace(s[i]) /\ \A j \in 1..(i - 1) : IsSpace(s[j])) - 1

LeadingWord(s) ==
    IF \A i \in DOMAIN s : ~IsSpace(s[i]) THEN Len(s)
    ELSE (CHOOSE i \in DOMAIN s : IsSpace(s[i]) /\ \A j \in 1..(i - 1) : ~IsSpace(s[j])) - 1

\* s.split(): the maximal runs of non-whitespace symbols
RECURSIVE Tokens(_)
Tokens(s) ==
    LET t == SubSeq(s, LeadingSpaces(s) + 1, Len(s))
    IN  IF t = <<>> THEN <<>>
        ELSE <<SubSeq(t, 1, LeadingWord(t))>> \o Tokens(SubSeq(t, LeadingWord(t) + 1, Len(t)))

\* sep.join(parts)
RECURSIVE Join(_, _)
Join(parts, sep) ==
    IF parts = <<>> THEN <<>>
    ELSE IF Len(parts) = 1 THEN parts[1]
    ELSE parts[1] \o sep \o Join(Tail(parts), sep)

\* s.find(sub): the least 0-based index where sub occurs in s, or -1
IndexOf(s, sub) ==
    LET hits == {i \in 0..(Len(s) - Len(sub)) : SubSeq(s, i + 1, i + Len(sub)) = sub}
    IN  IF hits = {} THEN -1 ELSE CHOOSE i \in hits : \A j \in hits : i <= j

\* sub in s
Contains(s, sub) == IndexOf(s, sub) # -1

\* s.split(sep)
RECURSIVE SplitOn(_, _)
SplitOn(s, sep) ==
    LET i == IndexOf(s, sep)
    IN  IF i = -1 THEN <<s>>
        ELSE <<Slice(s, 0, i)>> \o SplitOn(Slice(s, i + Len(sep), Len(s)), sep)

\* seq[::-1]
Reverse(seq) == [i \in DOMAIN seq |-> seq[Len(seq) + 1 - i]]

\* [n.strip() for n in parts]
StripAll(parts) == [i \in DOMAIN parts |-> Strip(parts[i])]

\* dict.get(name, None) on an inverted reference table
Get(codes, name) == IF name \in DOMAIN codes THEN codes[name] ELSE None

\* the lookup key computed at the top of both resolvers:
\* ' '.join([replaced_words[n] if n in replaced_words.keys() else n
\*           for n in raw.lower().split() if n not in ignored_words])
SanitizeName(raw, ignored_words, replaced_words) ==
    LET words == Tokens(LowerStr(raw))
        kept == SelectSeq(words, LAMBDA n : n \notin ignored_words)
    IN  Join([i \in DOMAIN kept |->
                 IF kept[i] \in DOMAIN replaced_words THEN replaced_words[kept[i]]
                 ELSE kept[i]],
             <<" ">>)

OrSep == <<" ", "or", " ">>

----------------------------------------------------------------------------
(* find_language_code.  A call returns [code, log]: the returned code and  *)
(* the lines it printed, those of its recursive calls included.            *)

_find_language_code(codes, name) == Get(codes, name)

LanguageIgnoredWords == {<<"only">>}
LanguageReplacedWords == <<>>

LanguageKey(language_name) ==
    SanitizeName(language_name, LanguageIgnoredWords, LanguageReplacedWords)

LanguageWarning(language_name) == [kind |-> "language", name |-> language_name]

RECURSIVE find_language_code(_, _)
RECURSIVE LanguageAlternatives(_, _, _)

\* for subname in names: result = find_language_code(codes, subname) ...
LanguageAlternatives(codes, names, printed) ==
    IF names = <<>> THEN [code |-> None, log |-> printed]
    ELSE LET r == find_language_code(codes, names[1])
         IN  IF r.code # None THEN [code |-> r.code, log |-> printed \o r.log]
             ELSE LanguageAlternatives(codes, Tail(names), printed \o r.log)

find_language_code(codes, language_name) ==
    LET name == LanguageKey(language_name)
        result == _find_language_code(codes, name)
    IN  IF result # None THEN [code |-> result, log |-> <<>>]
        ELSE IF Contains(name, OrSep)
             THEN LanguageAlternatives(codes, StripAll(SplitOn(name, OrSep)), <<>>)
        ELSE [code |-> None, log |-> <<LanguageWarning(language_name)>>]

----------------------------------------------------------------------------
(* find_country_code *)

_find_country_code(codes, name) == Get(codes, name)

CountryIgnoredWords == {<<"the">>, <<"only">>}
CountryReplacedWords == (<<"and">> :> <<"&">>) @@ (<<"saint">> :> <<"st", ".">>)

\* match name: case ...: the alias table
CountryAlias(name) ==
    CASE name = <<"burma">> -> <<"myanmar", " ", "(", "burma", ")">>
      [] name = <<"cabo", " ", "verde">> -> <<"cape", " ", "verde">>
      [] name = <<"congo", ",", " ", "democratic", " ", "republic", " ", "of">>
            -> <<"congo", " ", "-", " ", "kinshasa">>
      [] name = <<"congo", ",", " ", "republic", " ", "of">>
            -> <<"congo", " ", "-", " ", "brazzaville">>
      [] name \in {<<"gaza", " ", "strip">>, <<"west", " ", "bank">>}
            -> <<"palestinian", " ", "territories">>
      [] name = <<"hong", " ", "kong">> -> <<"hong", " ", "kong", " ", "sar", " ", "china">>
      [] name = <<"macau">> -> <<"macao", " ", "sar", " ", "china">>
      [] name = <<"svalbard">> -> <<"svalbard", " ", "&", " ", "jan", " ", "mayen">>
      [] name = <<"virgin", " ", "islands">> -> <<"british", " ", "virgin", " ", "islands">>
      [] OTHER -> name

\* the name after sanitizing, before the kosovo test and the aliases
CountrySanitized(country_name) ==
    SanitizeName(country_name, CountryIgnoredWords, CountryReplacedWords)

\* the name looked up: sanitized, then aliased
CountryKey(country_name) == CountryAlias(CountrySanitized(country_name))

\* " ".join([s.strip() for s in name.split(",")[::-1]])
InvertedName(name) == Join(Reverse(StripAll(SplitOn(name, <<",">>))), <<" ">>)

\* name.split(",", 1)[0]
ShortName(name) == SplitOn(name, <<",">>)[1]

\* re.match(r'^(.*) \((.*)\)$', name): the start (0-based) of the " (" that
\* the greedy first group leaves for the rest of the pattern, or -1
AlternateNameAt(name) ==
    LET hits == {i \in 0..(Len(name) - 3) : At(name, i) = " " /\ At(name, i + 1) = "("}
    IN  IF Len(name) < 3 \/ At(name, Len(name) - 1) # ")" \/ hits = {} THEN -1
        ELSE CHOOSE i \in hits : \A j \in hits : j <= i

\* CommaLookup with its two lookups in the other order
CommaLookup_ShortNameFirst(codes, name) ==
    IF ~Contains(name, <<",">>) THEN None
    ELSE IF _find_country_code(codes, ShortName(name)) # None
         THEN _find_country_code(codes, ShortName(name))
    ELSE _find_country_code(codes, InvertedName(name))

\* the comma step: inverted name, then the name without the details
CommaLookup(codes, name) ==
    IF ~Contains(name, <<",">>) THEN None
    ELSE IF _find_country_code(codes, InvertedName(name)) # None
         THEN _find_country_code(codes, InvertedName(name))
    ELSE _find_country_code(codes, ShortName(name))

\* the alternate-name step: m.group(2), then m.group(1)
AlternateLookup(codes, name) ==
    LET at == AlternateNameAt(name)
        second_name == Strip(Slice(name, at + 2, Len(name) - 1))
        first_name == Strip(Slice(name, 0, at))
    IN  IF at = -1 THEN None
        ELSE IF _find_country_code(codes, second_name) # None
             THEN _find_country_code(codes, second_name)
        ELSE _find_country_code(codes, first_name)

CountryWarning(country_name, name) ==
    [kind |-> "country", name |-> country_name, key |-> name]

RECURSIVE find_country_code(_, _)
RECURSIVE CountryAlternatives(_, _, _)

\* for subname in names: result = find_country_code(codes, subname) ...
CountryAlternatives(codes, names, printed) ==
    IF names = <<>> THEN [code |-> None, log |-> printed]
    ELSE LET r == find_country_code(codes, names[1])
         IN  IF r.code # None THEN [code |-> r.code, log |-> printed \o r.log]
             ELSE CountryAlternatives(codes, Tail(names), printed \o r.log)

\* CountryFallbacks with the comma and alternate-name steps tried before the
\* " or " alternatives
CountryFallbacks_OrLast(codes, country_name, name) ==
    IF CommaLookup(codes, name) # None
    THEN [code |-> CommaLookup(codes, name), log |-> <<>>]
    ELSE IF AlternateLookup(codes, name) # None
         THEN [code |-> AlternateLookup(codes, name), log |-> <<>>]
    ELSE IF Contains(name, OrSep)
         THEN CountryAlternatives(codes, StripAll(SplitOn(name, OrSep)), <<>>)
    ELSE [code |-> None, log |-> <<CountryWarning(country_name, name)>>]

\* the steps after the direct lookup has failed
CountryFallbacks(codes, country_name, name) ==
    IF Contains(name, OrSep)
    THEN CountryAlternatives(codes, StripAll(SplitOn(name, OrSep)), <<>>)
    ELSE IF CommaLookup(codes, name) # None
         THEN [code |-> CommaLookup(codes, name), log |-> <<>>]
    ELSE IF AlternateLookup(codes, name) # None
         THEN [code |-> AlternateLookup(codes, name), log |-> <<>>]
    ELSE [code |-> None, log |-> <<CountryWarning(country_name, name)>>]

find_country_code(codes, country_name) ==
    LET name == CountryKey(country_name)
    IN  IF CountrySanitized(country_name) = <<"kosovo">> THEN [code |-> "XK", log |-> <<>>]
        ELSE IF _find_country_code(codes, name) # None
             THEN [code |-> _find_country_code(codes, name), log |-> <<>>]
        ELSE CountryFallbacks(codes, country_name, name)

----------------------------------------------------------------------------
(* Specification SpecResolve: one top-level call of find_language_code or  *)
(* find_country_code on a name and a reference table.                      *)

NameWords == {<<"a">>, <<"b">>, <<"The">>}
NameSeparators == {<<" ">>, <<",", " ">>, OrSep, <<" ", "(">>}

\* names of exactly n words, each two joined by a separator
RECURSIVE NamesOfWords(_)
NamesOfWords(n) ==
    IF n = 1 THEN NameWords
    ELSE {x \o sep \o w : x \in NamesOfWords(n - 1), sep \in NameSeparators, w \in NameWords}

\* an opened parenthesis is closed at the end of the name
CloseParenthesis(name) == IF "(" \in Range(name) THEN name \o <<")">> ELSE name

InputNames == {CloseParenthesis(x) : x \in UNION {NamesOfWords(n) : n \in 1..MaxNameWords}}

\* the display names of the reference tables of the model, lowercased, and
\* their codes; a reference table holds any subset of them
TableCode(name) ==
    CASE name = <<"a">> -> "AA"
      [] name = <<"b", " ", "a">> -> "BA"
      [] name = <<"a", " ", "or", " ", "b">> -> "AB"
      [] name = <<"myanmar", " ", "(", "burma", ")">> -> "MM"
      [] name = <<"b">> -> "BB"

ResolveTableNames == {<<"a">>, <<"b", " ", "a">>, <<"a", " ", "or", " ", "b">>}

TableOf(names) == [n \in names |-> TableCode(n)]

ResolveTables == {TableOf(K) : K \in SUBSET ResolveTableNames}

\* the table the call is given
ResolveCodes == IF resolver = "language" THEN language_codes ELSE country_codes

InitResolve ==
    /\ pc = "resolve_call"
    /\ log = <<>>
    /\ resolver \in {"language", "country"}
    /\ name_arg \in InputNames
    /\ found = None
    /\ \E t \in ResolveTables :
          /\ language_codes = IF resolver = "language" THEN t ELSE <<>>
          /\ country_codes = IF resolver = "country" THEN t ELSE <<>>
    /\ IdleSplit /\ IdleParse /\ IdleFormat /\ IdleMain

ResolveUnchanged ==
    UNCHANGED <<resolver, name_arg, tableVars, splitVars, parseVars, lng_list, formatted, mainVars>>

FindLanguageCode ==
    /\ pc = "resolve_call"
    /\ resolver = "language"
    /\ LET r == find_language_code(language_codes, name_arg)
       IN  found' = r.code /\ log' = log \o r.log
    /\ pc' = "resolve_return"
    /\ ResolveUnchanged

FindCountryCode ==
    /\ pc = "resolve_call"
    /\ resolver = "country"
    /\ LET r == find_country_code(country_codes, name_arg)
       IN  found' = r.code /\ log' = log \o r.log
    /\ pc' = "resolve_return"
    /\ ResolveUnchanged

NextResolve ==
    \/ FindLanguageCode
    \/ FindCountryCode

SpecResolve == InitResolve /\ [][NextResolve]_vars

----------------------------------------------------------------------------
(* Claims about the resolvers, checked under SpecResolve *)

Returned == pc = "resolve_return"

\* the lookup key the called resolver computes from the name it is given
ResolveKey(name) == IF resolver = "language" THEN LanguageKey(name) ELSE CountryKey(name)

\* the code the called resolver returns for name
ResolveCode(name) ==
    IF resolver = "language" THEN find_language_code(language_codes, name).code
    ELSE find_country_code(country_codes, name).code

\* the " or "-separated alternatives of the key of the call
Alternatives == StripAll(SplitOn(ResolveKey(name_arg), OrSep))

\* the key of the call holds " or " and is no key of the table
OrCase ==
    /\ Contains(ResolveKey(name_arg), OrSep)
    /\ Get(ResolveCodes, ResolveKey(name_arg)) = None
    /\ ~(resolver = "country" /\ CountrySanitized(name_arg) = <<"kosovo">>)

\* the code of the leftmost alternative that resolves, None when none does
LeftmostAlternative ==
    LET hits == {i \in DOMAIN Alternatives : ResolveCode(Alternatives[i]) # None}
    IN  IF hits = {} THEN None
        ELSE ResolveCode(Alternatives[CHOOSE i \in hits : \A j \in hits : i <= j])

\* C5: when the key holds " or " and its direct lookup fails, either resolver
\* returns the code of the leftmost alternative that resolves through the
\* same resolver, and None when no alternative resolves: the comma and
\* alternate-name steps are not applied to the whole name.
C5_OrAlternatives == (Returned /\ OrCase) => found = LeftmostAlternative

\* C5 witness: a country call whose whole key would resolve through the comma
\* step, and which returns None because no alternative resolves.
C5_Witness ==
    /\ Returned /\ OrCase /\ resolver = "country"
    /\ CommaLookup(country_codes, CountryKey(name_arg)) # None
    /\ found = None

\* the name holds exactly one comma, with text on both sides
IsCommaForm(name) ==
    /\ Cardinality({i \in DOMAIN name : name[i] = ","}) = 1
    /\ Strip(Slice(name, 0, Find(name, ",", 0))) # <<>>
    /\ Strip(Slice(name, Find(name, ",", 0) + 1, Len(name))) # <<>>

\* "B A" for a name "A, B"
Swapped(name) ==
    Strip(Slice(name, Find(name, ",", 0) + 1, Len(name))) \o <<" ">>
        \o Strip(Slice(name, 0, Find(name, ",", 0)))

\* C6 as stated: for a country name "A, B" the call returns what the call on
\* the inverted name "B A" returns.
C6_SameAsInvertedName ==
    (Returned /\ resolver = "country" /\ IsCommaForm(name_arg))
        => found = find_country_code(country_codes, Swapped(name_arg)).code

\* the case of C6 that the code supports: the key of "A, B" is no key of the
\* table and holds no " or ", and the key of "B A" is the key of "A, B" with
\* its sides swapped and is a key of the table
InversionCase ==
    /\ resolver = "country" /\ IsCommaForm(name_arg)
    /\ IsCommaForm(CountryKey(name_arg))
    /\ Get(country_codes, CountryKey(name_arg)) = None
    /\ ~Contains(CountryKey(name_arg), OrSep)
    /\ CountryKey(Swapped(name_arg)) = Swapped(CountryKey(name_arg))
    /\ Get(country_codes, CountryKey(Swapped(name_arg))) # None

\* C6 amended: in the inversion case the call on "A, B" returns the code the
\* call on "B A" returns.
C6_SameAsInvertedNameWhenInvertedIsKey ==
    (Returned /\ InversionCase)
        => /\ found # None
           /\ found = find_country_code(country_codes, Swapped(name_arg)).code

\* C6 witness: "a, b" resolved to the code of "b a" although "a" is a key too
C6_Witness ==
    /\ Returned /\ InversionCase
    /\ Get(country_codes, ShortName(CountryKey(name_arg))) # None
    /\ found = Get(country_codes, Swapped(CountryKey(name_arg)))

\* C7: a top-level call that returns None has printed exactly one line, and
\* that line names the name the call was given.
C7_OneWarningNamingInput ==
    (Returned /\ found = None) => (Len(log) = 1 /\ log[1].name = name_arg)

----------------------------------------------------------------------------
(* parse_langs: the percentage pattern, float(), the name pattern *)

Digits == {"0", "1", "2", "3", "4", "5", "6", "7", "8", "9"}

DigitValue(c) ==
    CASE c = "0" -> 0 [] c = "1" -> 1 [] c = "2" -> 2 [] c = "3" -> 3 [] c = "4" -> 4
      [] c = "5" -> 5 [] c = "6" -> 6 [] c = "7" -> 7 [] c = "8" -> 8 [] c = "9" -> 9

IsDigit(c) == c \in Digits
IsSeparator(c) == c \in {".", ","}

\* [a-zA-Z]: the symbols that are runs of letters
IsLetters(c) == c \notin Digits \cup {" ", ",", ".", "(", ")", "%", "-", "&"}

\* the symbols at 0-based positions a .. b-1 of s exist and are all digits
AllDigits(s, a, b) == b <= Len(s) /\ \A i \in a..(b - 1) : IsDigit(At(s, i))

\* " ?%" matches at 0-based position e of s
PercentSign(s, e) ==
    \/ e < Len(s) /\ At(s, e) = "%"
    \/ e + 1 < Len(s) /\ At(s, e) = " " /\ At(s, e + 1) = "%"

MaxIntegerDigits == 3
MaxFractionDigits == 10

\* The ways the pattern
\*   ((?:[0-9]{1,3}(?:[.,][0-9]{0,10})?)|(?:[.,][0-9]{1,10})) ?%
\* matches at position i of s, as records [alt, n, frac, m, end]: the
\* alternative taken, the number n of integer digits, whether the optional
\* fraction is taken, its number m of digits, and the end of group 1.
PercentMatchesAt(s, i) ==
    IF ~(IsDigit(At(s, i)) \/ IsSeparator(At(s, i))) THEN {}
    ELSE
    {[alt |-> 1, n |-> n, frac |-> FALSE, m |-> 0, end |-> i + n] :
        n \in {n \in 1..MaxIntegerDigits :
                  AllDigits(s, i, i + n) /\ PercentSign(s, i + n)}}
    \cup
    UNION {{[alt |-> 1, n |-> n, frac |-> TRUE, m |-> m, end |-> i + n + 1 + m] :
              m \in {m \in 0..MaxFractionDigits :
                        /\ AllDigits(s, i + n + 1, i + n + 1 + m)
                        /\ PercentSign(s, i + n + 1 + m)}} :
           n \in {n \in 1..MaxIntegerDigits :
                     /\ AllDigits(s, i, i + n)
                     /\ i + n < Len(s) /\ IsSeparator(At(s, i + n))}}
    \cup
    {[alt |-> 2, n |-> 0, frac |-> TRUE, m |-> m, end |-> i + 1 + m] :
        m \in {m \in 1..MaxFractionDigits :
                  /\ IsSeparator(At(s, i))
                  /\ AllDigits(s, i + 1, i + 1 + m)
                  /\ PercentSign(s, i + 1 + m)}}

\* the order in which the backtracking matcher tries them: the first
\* alternative before the second, more integer digits first, the fraction
\* before no fraction, more fraction digits first
TriedBefore(x, y) ==
    \/ x.alt < y.alt
    \/ x.alt = y.alt /\ x.n > y.n
    \/ x.alt = y.alt /\ x.n = y.n /\ x.frac /\ ~y.frac
    \/ x.alt = y.alt /\ x.n = y.n /\ x.frac = y.frac /\ x.m > y.m

\* re.search(pattern, s): the span [start, end) of group 1 of the match at
\* the leftmost position that has one, or NoValue
RECURSIVE PercentSearchFrom(_, _)
PercentSearchFrom(s, i) ==
    IF i >= Len(s) THEN NoValue
    ELSE LET ms == PercentMatchesAt(s, i)
             first == CHOOSE x \in ms : \A y \in ms : x = y \/ TriedBefore(x, y)
         IN  IF ms = {} THEN PercentSearchFrom(s, i + 1)
             ELSE [start |-> i, end |-> first.end]

PercentSearch(s) == PercentSearchFrom(s, 0)

\* the number written by a sequence of digits
RECURSIVE DigitsValue(_)
DigitsValue(ds) ==
    IF ds = <<>> THEN 0
    ELSE 10 * DigitsValue(SubSeq(ds, 1, Len(ds) - 1)) + DigitValue(ds[Len(ds)])

\* ds without its trailing zeros
RECURSIVE TrimZeros(_)
TrimZeros(ds) ==
    IF ds # <<>> /\ ds[Len(ds)] = "0" THEN TrimZeros(SubSeq(ds, 1, Len(ds) - 1)) ELSE ds

\* float(g) for a text g matched by group 1.  A number is the record
\* [num, exp] standing for num / 10^exp, with no trailing zero in the
\* fraction, so that equal numbers are equal records.  float() accepts only
\* "." as the decimal point and raises ValueError on ",".
FloatOf(g) ==
    IF "," \in Range(g) THEN [raised |-> TRUE, value |-> NoValue]
    ELSE LET dot == Find(g, ".", 0)
             int == IF dot = -1 THEN g ELSE Slice(g, 0, dot)
             frac == IF dot = -1 THEN <<>> ELSE TrimZeros(Slice(g, dot + 1, Len(g)))
         IN  [raised |-> FALSE,
              value |-> [num |-> DigitsValue(int \o frac), exp |-> Len(frac)]]

RECURSIVE Pow10(_)
Pow10(n) == IF n = 0 THEN 1 ELSE 10 * Pow10(n - 1)

\* x > k for a number x and an integer k
Greater(x, k) == x.num > k * Pow10(x.exp)

\* re.search(r'^[a-zA-Z -]+', s): the length of the matched run, 0 for no match
NameRun(s) ==
    LET ok(c) == IsLetters(c) \/ c = " " \/ c = "-"
    IN  IF \A i \in DOMAIN s : ok(s[i]) THEN Len(s)
        ELSE (CHOOSE i \in DOMAIN s : ~ok(s[i]) /\ \A j \in 1..(i - 1) : ok(s[j])) - 1

\* "official" in s.lower()
IsOfficial(s) == \E i \in DOMAIN s : Lower(s[i]) = "official"

\* the name taken from an entry (lines 59-62)
EntryName(d) ==
    IF NameRun(d) > 0 THEN LowerStr(Strip(SubSeq(d, 1, NameRun(d)))) ELSE LowerStr(d)

\* lines 55-57: [raised, value], the percent of the entry d, NoValue when the
\* pattern is not found, or that float(m.group(1)) raises
PercentOf(d) ==
    LET m == PercentSearch(d)
    IN  IF m = NoValue THEN [raised |-> FALSE, value |-> NoValue]
        ELSE FloatOf(Slice(d, m.start, m.end))

\* lines 58-64, given the percent: the LanguageInfo appended and the lines
\* printed by find_language_code
ParseEntry(codes, d, index, percent) ==
    LET name == EntryName(d)
        r == find_language_code(codes, name)
    IN  [info |-> [full_descr |-> d, name |-> name, code |-> r.code,
                   percent |-> percent, official |-> IsOfficial(d),
                   index |-> index],
         log |-> r.log]

\* the loop of parse_langs over the entries from position k on (1-based),
\* given the list built and the lines printed so far
RECURSIVE ParseLoop(_, _, _, _, _)
ParseLoop(codes, es, k, list, printed) ==
    IF k > Len(es) THEN [raised |-> FALSE, list |-> list, log |-> printed]
    ELSE LET percent == PercentOf(es[k])
             e == ParseEntry(codes, es[k], k - 1, percent.value)
         IN  IF percent.raised THEN [raised |-> TRUE, list |-> list, log |-> printed]
             ELSE ParseLoop(codes, es, k + 1, Append(list, e.info), printed \o e.log)

parse_langs(codes, d) == ParseLoop(codes, split_lang_descr(d), 1, <<>>, <<>>)

----------------------------------------------------------------------------
(* Specification SpecParse: parse_langs run entry by entry *)

ParseFragments ==
    {<<"a">>, <<"b">>, <<" ">>, <<",">>,
     <<"3", "%">>, <<"3", ".", "3", "0", " ", "%">>, <<".", "5", "%">>,
     <<"(", "3", ",", "3", "%", ")">>, <<"(", "Official", ")">>, <<"(", "a">>}

RECURSIVE TextsOfFragments(_)
TextsOfFragments(n) ==
    IF n = 0 THEN {<<>>}
    ELSE {x \o f : x \in TextsOfFragments(n - 1), f \in ParseFragments}

ParseDescriptions == UNION {TextsOfFragments(n) : n \in 0..MaxFragments}

ParseTables == {TableOf({}), TableOf({<<"a">>})}

InitParse ==
    /\ pc = "parse_call"
    /\ log = <<>>
    /\ list_descr \in ParseDescriptions
    /\ language_codes \in ParseTables
    /\ country_codes = <<>>
    /\ entries = <<>>
    /\ lng_list = <<>>
    /\ formatted = <<>>
    /\ IdleSplit /\ IdleResolve /\ IdleMain

ParseUnchanged ==
    UNCHANGED <<list_descr, tableVars, splitVars, formatted, resolveVars, mainVars>>

\* for index, descr in enumerate(split_lang_descr(list_descr)):
ParseSplit ==
    /\ pc = "parse_call"
    /\ entries' = split_lang_descr(list_descr)
    /\ pc' = "parse_loop"
    /\ UNCHANGED <<log, lng_list>>
    /\ ParseUnchanged

ParseNextEntry ==
    /\ pc = "parse_loop"
    /\ Len(lng_list) < Len(entries)
    /\ LET percent == PercentOf(entries[Len(lng_list) + 1])
           e == ParseEntry(language_codes, entries[Len(lng_list) + 1], Len(lng_list),
                           percent.value)
       IN  /\ ~percent.raised
           /\ lng_list' = Append(lng_list, e.info)
           /\ log' = log \o e.log
    /\ UNCHANGED <<pc, entries>>
    /\ ParseUnchanged

ParseValueError ==
    /\ pc = "parse_loop"
    /\ Len(lng_list) < Len(entries)
    /\ PercentOf(entries[Len(lng_list) + 1]).raised
    /\ pc' = "parse_ValueError"
    /\ UNCHANGED <<log, entries, lng_list>>
    /\ ParseUnchanged

ParseReturn ==
    /\ pc = "parse_loop"
    /\ Len(lng_list) = Len(entries)
    /\ pc' = "parse_return"
    /\ UNCHANGED <<log, entries, lng_list>>
    /\ ParseUnchanged

NextParse ==
    \/ ParseSplit
    \/ ParseNextEntry
    \/ ParseValueError
    \/ ParseReturn

SpecParse == InitParse /\ [][NextParse]_vars

----------------------------------------------------------------------------
(* Claims about parse_langs, checked under SpecParse *)

\* the entries the loop has taken up: those parsed, and the one that raised
TakenUp(k) ==
    \/ k <= Len(lng_list)
    \/ k = Len(lng_list) + 1 /\ pc = "parse_ValueError"

\* the text of the first percentage match of d, <<>> when there is none
PercentText(d) ==
    LET m == PercentSearch(d)
    IN  IF m = NoValue THEN <<>> ELSE Slice(d, m.start, m.end)

\* the first percentage match of d writes its fraction with ","
CommaPercent(d) == "," \in Range(PercentText(d))

\* g with every "," replaced by "."
WithDots(g) == [i \in DOMAIN g |-> IF g[i] = "," THEN "." ELSE g[i]]

\* C3: for every entry whose first percentage match writes its fraction with
\* ",", parse_langs does not raise and sets percent to the number read with
\* "." as the decimal point.
C3_CommaPercentParsed ==
    \A k \in DOMAIN entries :
        (TakenUp(k) /\ CommaPercent(entries[k]))
            => /\ pc # "parse_ValueError"
               /\ lng_list[k].percent = FloatOf(WithDots(PercentText(entries[k]))).value

----------------------------------------------------------------------------
(* format *)

KeptLeadingEntries == 5
WarnPercent == 5

\* Printable with the leading entries counted one too many (index <= 5)
Printable_OneMore(l) ==
    l.code # None \/ (l.index <= KeptLeadingEntries \/ l.percent # NoValue)

\* the filter of line 70
Printable(l) ==
    l.code # None \/ (l.index < KeptLeadingEntries \/ l.percent # NoValue)

\* the test of line 72
Ignored(l) == l.code = None /\ l.percent # NoValue /\ Greater(l.percent, WarnPercent)

IgnoredWarning(l) == [kind |-> "ignoring", lang |-> l]

\* one item of the returned list
Formatted(lng) ==
    [label |-> lng.name, code |-> lng.code, percent |-> lng.percent,
     official |-> lng.official, position |-> lng.index + 1]

\* format(lng_list): the returned list and the lines printed
format(list) ==
    LET printable_lngs == SelectSeq(list, Printable)
        ignored == SelectSeq(list, Ignored)
    IN  [list |-> [i \in DOMAIN printable_lngs |-> Formatted(printable_lngs[i])],
         log |-> [i \in DOMAIN ignored |-> IgnoredWarning(ignored[i])]]

----------------------------------------------------------------------------
(* Specification SpecFormat: format called on a list that parse_langs can  *)
(* return: the entry at position i has index i - 1.                        *)

Number(n) == [num |-> n, exp |-> 0]

\* the code and percent of the entries of the model
EntryKinds ==
    {[code |-> "AA", percent |-> NoValue], [code |-> None, percent |-> NoValue],
     [code |-> None, percent |-> Number(3)], [code |-> None, percent |-> Number(50)]}

InfoOfKind(k, index) ==
    [full_descr |-> IF k.code = None THEN <<"b">> ELSE <<"a">>,
     name |-> IF k.code = None THEN <<"b">> ELSE <<"a">>,
     code |-> k.code, percent |-> k.percent, official |-> FALSE, index |-> index]

ListOfKinds(ks) == [i \in DOMAIN ks |-> InfoOfKind(ks[i], i - 1)]

InitFormat ==
    /\ pc = "format_call"
    /\ log = <<>>
    /\ \E n \in 0..MaxEntries : \E ks \in [1..n -> EntryKinds] : lng_list = ListOfKinds(ks)
    /\ formatted = <<>>
    /\ IdleSplit /\ IdleParse /\ IdleResolve /\ IdleMain /\ IdleTables

Format ==
    /\ pc = "format_call"
    /\ formatted' = format(lng_list).list
    /\ log' = log \o format(lng_list).log
    /\ pc' = "format_return"
    /\ UNCHANGED <<lng_list, tableVars, splitVars, parseVars, resolveVars, mainVars>>

NextFormat == Format

SpecFormat == InitFormat /\ [][NextFormat]_vars

----------------------------------------------------------------------------
(* Claims about format, checked under SpecFormat *)

\* the 1-based positions of the entries the claim says are output
KeptPositions ==
    {k \in DOMAIN lng_list :
        \/ lng_list[k].code # None
        \/ k <= 5
        \/ lng_list[k].percent # NoValue}

\* C4: format outputs exactly the entries that have a code, or are among the
\* first five of the description, or have a percent, in their original
\* order, each with its own label, code, percent and official flag.
C4_FormatKeepsExactly ==
    pc = "format_return" =>
        /\ {formatted[j].position : j \in DOMAIN formatted} = KeptPositions
        /\ Len(formatted) = Cardinality(KeptPositions)
        /\ \A i, j \in DOMAIN formatted : i < j => formatted[i].position < formatted[j].position
        /\ \A j \in DOMAIN formatted :
              LET l == lng_list[formatted[j].position]
              IN  /\ formatted[j].label = l.name
                  /\ formatted[j].code = l.code
                  /\ formatted[j].percent = l.percent
                  /\ formatted[j].official = l.official

\* C4 witness: six entries of which only the sixth has neither a code nor a
\* percent; the output holds positions 1 to 5, one of them kept by its
\* position alone.
C4_Witness ==
    /\ pc = "format_return"
    /\ Len(lng_list) = 6
    /\ lng_list[6].code = None /\ lng_list[6].percent = NoValue
    /\ lng_list[2].code = None /\ lng_list[2].percent = NoValue
    /\ {formatted[j].position : j \in DOMAIN formatted} = 1..5

----------------------------------------------------------------------------
(* main.  A dict is the sequence of its items [key, value] in insertion    *)
(* order.                                                                  *)

\* d[k] = v: a new key is appended, a present key keeps its place
DictSet(d, k, v) ==
    IF \E i \in DOMAIN d : d[i].key = k
    THEN [i \in DOMAIN d |-> IF d[i].key = k THEN [key |-> k, value |-> v] ELSE d[i]]
    ELSE Append(d, [key |-> k, value |-> v])

\* the codes of the model in ascending order of Python's string comparison
CodeOrder == <<"AA", "AB", "BA", "PS", "XK">>

CodeRank(c) == CHOOSE i \in DOMAIN CodeOrder : CodeOrder[i] = c

\* sorted(d.items()) with the items left in insertion order
Sorted_Unsorted(d) == d

\* sorted(d.items()): the keys of a dict are distinct, so the items are
\* ordered by key alone
Sorted(d) ==
    LET place(i) == 1 + Cardinality({j \in DOMAIN d : CodeRank(d[j].key) < CodeRank(d[i].key)})
    IN  [p \in DOMAIN d |-> d[CHOOSE i \in DOMAIN d : place(i) = p]]

\* {k: format(v) for k, v in lngs_by_country.items()}: the dict and the
\* lines printed, in the order of the items
RECURSIVE FormatAll(_)
FormatAll(d) ==
    IF d = <<>> THEN [dict |-> <<>>, log |-> <<>>]
    ELSE LET rest == FormatAll(SubSeq(d, 1, Len(d) - 1))
             last == format(d[Len(d)].value)
         IN  [dict |-> Append(rest.dict, [key |-> d[Len(d)].key, value |-> last.list]),
              log |-> rest.log \o last.log]

\* {k: v for k, v in dict(sorted(output.items())).items() if v}
SortedNonEmpty(d) == SelectSeq(Sorted(d), LAMBDA item : item.value # <<>>)

----------------------------------------------------------------------------
(* Specification SpecMain: the loop of main over the input countries, then *)
(* the formatting of the output.                                           *)

MainCountryNames ==
    {<<"gaza", " ", "strip">>, <<"west", " ", "bank">>, <<"Kosovo">>, <<"a">>, <<"b">>}

MainDescriptions ==
    {<<>>,
     <<"b", " ", "3", "0", "%", ",", "a", ",">>,
     <<"a", " ", "(", "3", ",", "3", "%", ")", ",">>}

MainCountryCodes == (<<"palestinian", " ", "territories">> :> "PS") @@ (<<"a">> :> "AA")
MainLanguageCodes == (<<"a">> :> "AA")

\* the keys of a dict are distinct
Distinct(names) == \A i, j \in DOMAIN names : i # j => names[i] # names[j]

InitMain ==
    /\ pc = "main_loop"
    /\ log = <<>>
    /\ country_codes = MainCountryCodes
    /\ language_codes = MainLanguageCodes
    /\ \E n \in 0..MaxCountries :
          \E names \in {f \in [1..n -> MainCountryNames] : Distinct(f)} :
             \E descrs \in [1..n -> MainDescriptions] :
                raw_data = [i \in 1..n |-> [name |-> names[i], descr |-> descrs[i]]]
    /\ idx = 0
    /\ lngs_by_country = <<>>
    /\ output = <<>>
    /\ IdleSplit /\ IdleParse /\ IdleFormat /\ IdleResolve

MainUnchanged ==
    UNCHANGED <<raw_data, tableVars, splitVars, parseVars, lng_list, formatted, resolveVars>>

\* the country the loop takes up next
Country == raw_data[idx + 1]
CountryCode == find_country_code(country_codes, Country.name)
CountryLangs == parse_langs(language_codes, Country.descr)

\* if country_code is None: continue
MainSkipCountry ==
    /\ pc = "main_loop"
    /\ idx < Len(raw_data)
    /\ CountryCode.code = None
    /\ log' = log \o CountryCode.log
    /\ idx' = idx + 1
    /\ UNCHANGED <<pc, lngs_by_country, output>>
    /\ MainUnchanged

\* lngs_by_country[country_code] = parse_langs(language_codes, country_lng_list_descr)
MainParseCountry ==
    /\ pc = "main_loop"
    /\ idx < Len(raw_data)
    /\ CountryCode.code # None
    /\ LET langs == CountryLangs
       IN  /\ ~langs.raised
           /\ lngs_by_country' = DictSet(lngs_by_country, CountryCode.code, langs.list)
           /\ log' = log \o CountryCode.log \o langs.log
    /\ idx' = idx + 1
    /\ UNCHANGED <<pc, output>>
    /\ MainUnchanged

\* parse_langs raises ValueError, which nothing catches
MainValueError ==
    /\ pc = "main_loop"
    /\ idx < Len(raw_data)
    /\ CountryCode.code # None
    /\ CountryLangs.raised
    /\ log' = log \o CountryCode.log \o CountryLangs.log
    /\ pc' = "main_ValueError"
    /\ UNCHANGED <<idx, lngs_by_country, output>>
    /\ MainUnchanged

\* lines 213-214, after the loop
MainOutput ==
    /\ pc = "main_loop"
    /\ idx = Len(raw_data)
    /\ LET all == FormatAll(lngs_by_country)
       IN  /\ output' = SortedNonEmpty(all.dict)
           /\ log' = log \o all.log
    /\ pc' = "main_done"
    /\ UNCHANGED <<idx, lngs_by_country>>
    /\ MainUnchanged

NextMain ==
    \/ MainSkipCountry
    \/ MainParseCountry
    \/ MainValueError
    \/ MainOutput

SpecMain == InitMain /\ [][NextMain]_vars

----------------------------------------------------------------------------
(* Claims about main, checked under SpecMain *)

\* the code find_country_code returns for the i-th input country
CodeOfCountry(i) == find_country_code(country_codes, raw_data[i].name).code

\* the list format returns for the i-th input country's own description
ListOfCountry(i) == format(parse_langs(language_codes, raw_data[i].descr).list).list

\* C8: every key of the final output is the code of an input country whose
\* name resolved, its value is the non-empty formatted list of such a
\* country, and the keys are in ascending order (so a country that is
\* unresolved or whose formatted list is empty contributes no key).
C8_OutputKeys ==
    pc = "main_done" =>
        /\ \A j \in DOMAIN output :
              /\ output[j].value # <<>>
              /\ \E i \in DOMAIN raw_data :
                    /\ CodeOfCountry(i) # None
                    /\ CodeOfCountry(i) = output[j].key
                    /\ ListOfCountry(i) = output[j].value
        /\ \A i, j \in DOMAIN output :
              i < j => CodeRank(output[i].key) < CodeRank(output[j].key)

\* C8 witness: an output of two keys that main met in descending order, from
\* an input that also holds an unresolved country and a resolved country
\* whose formatted list is empty and whose code is no key of the output.
C8_Witness ==
    /\ pc = "main_done"
    /\ Len(output) = 2
    /\ \E i \in DOMAIN raw_data : CodeOfCountry(i) = None
    /\ \E i \in DOMAIN raw_data :
          /\ CodeOfCountry(i) # None
          /\ ListOfCountry(i) = <<>>
          /\ \A j \in DOMAIN output : output[j].key # CodeOfCountry(i)
    /\ \E i, j \in DOMAIN lngs_by_country :
          /\ i < j
          /\ lngs_by_country[i].value # <<>> /\ lngs_by_country[j].value # <<>>
          /\ CodeRank(lngs_by_country[i].key) > CodeRank(lngs_by_country[j].key)

\* C10: the list exported for a country is determined by its own name and
\* description: when main is done, every input country whose name resolved
\* and whose own formatted list is not empty has that list in the output
\* under its code, whatever the other countries of the input are.
C10_OwnListExported ==
    pc = "main_done" =>
        \A i \in DOMAIN raw_data :
            (CodeOfCountry(i) # None /\ ListOfCountry(i) # <<>>)
                => \E j \in DOMAIN output :
                      output[j].key = CodeOfCountry(i) /\ output[j].value = ListOfCountry(i)

====
